---- MODULE Spec2Model ----
(***************************************************************************)
(* Verb dispatcher of src/basic/verbs.c: dispatch_verb() and the           *)
(* restricted-environment predicate running_in_chroot_or_offline().        *)
(*                                                                         *)
(* A process starts with a verb table, an argument vector and getopt's     *)
(* optind; dispatch_verb() runs once and either calls one handler or       *)
(* returns.  The collaborators (getenv_bool, running_in_chroot,            *)
(* must_be_root, the verb handlers) are external: their return values are  *)
(* chosen when they are called, and every call is recorded.                *)
(***************************************************************************)
EXTENDS Integers, Sequences, FiniteSets, TLC

(* ------------------------------ bounds --------------------------------- *)

\* Longest verb table (entries before the terminator).
MaxVerbs == 2

\* Largest argc.
MaxArgc == 2

\* The finite lower limit a table entry may declare (besides VERB_ANY).
MinLimit == 2

\* The finite upper limit a table entry may declare (besides VERB_ANY and 0).
MaxLimit == 1

(* ------------------------- program constants --------------------------- *)

EINVAL == 22

EPERM == 1

ENXIO == 6

\* (unsigned) -1: the "no limit" sentinel of min_args / max_args.  The code
\* only ever compares a field against it for equality before using the field.
VERB_ANY == -1

VERB_DEFAULT == "VERB_DEFAULT"

VERB_ONLINE_ONLY == "VERB_ONLINE_ONLY"

VERB_MUST_BE_ROOT == "VERB_MUST_BE_ROOT"

\* The null pointer (char* and function pointer alike).
NULL == "NULL"

(* ------------------------------ inputs --------------------------------- *)

VerbNames == {"status", "restart"}

\* What the user may type as the first positional argument.
Tokens == VerbNames \cup {"frob"}

\* argv[k] for every position other than the verb token.
Filler(k) == "arg" \o ToString(k)

\* The handler (function pointer) of table entry i.
Handler(i) == "H" \o ToString(i)

\* The all-zero entry that ends a table.
Terminator ==
    [verb |-> NULL, min_args |-> 0, max_args |-> 0, flags |-> {}, dispatch |-> NULL]

\* What an entry declares besides its name, handler and default flag: its
\* limits and its policy flags.
VerbPolicies ==
    [min_args : {VERB_ANY, MinLimit},
     max_args : {VERB_ANY, 0, MaxLimit},
     flags : SUBSET {VERB_ONLINE_ONLY, VERB_MUST_BE_ROOT}]

\* An entry without limits and without policy flags.
NoPolicy == [min_args |-> VERB_ANY, max_args |-> VERB_ANY, flags |-> {}]

\* The entries a table may hold at index i: any verb, the default flag set
\* or not, and either the policy pol or no policy at all.
VerbEntries(i, pol) ==
    {[verb |-> n,
      min_args |-> q.min_args,
      max_args |-> q.max_args,
      flags |-> q.flags \cup (IF d THEN {VERB_DEFAULT} ELSE {}),
      dispatch |-> Handler(i)] : n \in VerbNames, d \in BOOLEAN, q \in {pol, NoPolicy}}

\* The ways to fill the first n slots of a table.
RECURSIVE TablePrefixes(_, _)
TablePrefixes(n, pol) ==
    IF n = 0 THEN {<<>>}
    ELSE {Append(p, e) : p \in TablePrefixes(n - 1, pol), e \in VerbEntries(n - 1, pol)}

\* The C array of a list of entries: indexed from 0, closed by the terminator.
TableOf(p) == [i \in 0..Len(p) |-> IF i = Len(p) THEN Terminator ELSE p[i + 1]]

\* The tables of at most MaxVerbs entries.  Within one table the entries that
\* declare limits or policy flags declare the same ones.
Tables ==
    UNION {{TableOf(p) : p \in UNION {TablePrefixes(n, pol) : n \in 1..MaxVerbs}} :
              pol \in VerbPolicies}

\* Argument vectors of ac elements plus the closing NULL, with op as optind.
\* The element at optind (when there is one) is any token; the others are
\* told apart by their position.
ArgvOf(ac, op) ==
    IF op < ac
    THEN {[k \in 0..ac |-> IF k = ac THEN NULL ELSE IF k = op THEN t ELSE Filler(k)] :
             t \in Tokens}
    ELSE {[k \in 0..ac |-> IF k = ac THEN NULL ELSE Filler(k)]}

Userdata == {"ctx"}

\* Return values of the collaborators.
GetenvBoolResults == {-ENXIO, -EINVAL, 0, 1}

RunningInChrootResults == {-EPERM, 0, 1}

GeteuidIsRoot == BOOLEAN

HandlerResults == {0, -EINVAL}

(* ------------------------------- state --------------------------------- *)

VARIABLES
    verbs,      \* const Verb verbs[]
    argc,       \* int argc
    argv,       \* char *argv[]
    optind,     \* getopt's optind
    userdata,   \* void *userdata
    pc,         \* "start" before dispatch_verb() runs, "done" after it returned
    ret,        \* the value dispatch_verb() returned
    log,        \* the lines written by log_error / log_info / log_debug
    probes,     \* the collaborator calls made, with their results
    calls,      \* the handler invocations made
    th          \* the calls in progress when several threads call dispatch_verb()

vars == <<verbs, argc, argv, optind, userdata, pc, ret, log, probes, calls, th>>

inputs == <<verbs, argc, argv, optind, userdata>>

(* ------------------------------ helpers -------------------------------- *)

streq(a, b) == a = b

LogLine(level, msg, arg) == [level |-> level, msg |-> msg, arg |-> arg]

\* The elements a char** points at, up to the closing NULL.
RECURSIVE StrvFrom(_, _)
StrvFrom(v, k) == IF v[k] = NULL THEN <<>> ELSE <<v[k]>> \o StrvFrom(v, k + 1)

\* One past the last entry: the index of the terminator.
RECURSIVE TableLen(_, _)
TableLen(vs, i) == IF vs[i].dispatch = NULL THEN i ELSE TableLen(vs, i + 1)

(* ---------------------------- collaborators ---------------------------- *)

\* must_be_root(): 0 for euid 0, else it logs and returns -EPERM.
must_be_root(isRoot) ==
    IF isRoot
    THEN [r |-> 0, log |-> <<>>, probes |-> <<[fn |-> "must_be_root", r |-> 0]>>]
    ELSE [r |-> -EPERM,
          log |-> <<LogLine("error", "Need to be root.", NULL)>>,
          probes |-> <<[fn |-> "must_be_root", r |-> -EPERM]>>]

\* running_in_chroot_or_offline() where only a truthy override returns at
\* once and a falsy one goes on to the chroot probe.
running_in_chroot_or_offline_FalsyFallsThrough(g, c) ==
    LET env == <<[fn |-> "getenv_bool", r |-> g]>>
        chroot == <<[fn |-> "running_in_chroot", r |-> c]>>
        self(b) == <<[fn |-> "running_in_chroot_or_offline", r |-> IF b THEN 1 ELSE 0]>>
    IN  IF g > 0
        THEN [r |-> TRUE, log |-> <<>>, probes |-> env \o self(TRUE)]
        ELSE [r |-> (c > 0),
              log |-> IF c < 0
                      THEN <<LogLine("debug", "running_in_chroot(): %m", ToString(c))>>
                      ELSE <<>>,
              probes |-> env \o chroot \o self(c > 0)]

\* running_in_chroot_or_offline(), with g what getenv_bool("SYSTEMD_OFFLINE")
\* returns and c what running_in_chroot() returns if it is called.  The last
\* probe records the value the function itself returns (true as 1).
running_in_chroot_or_offline(g, c) ==
    LET env == <<[fn |-> "getenv_bool", r |-> g]>>
        chroot == <<[fn |-> "running_in_chroot", r |-> c]>>
        self(b) == <<[fn |-> "running_in_chroot_or_offline", r |-> IF b THEN 1 ELSE 0]>>
    IN  IF g >= 0
        THEN [r |-> (g # 0), log |-> <<>>, probes |-> env \o self(g # 0)]
        ELSE [r |-> (c > 0),
              log |-> <<LogLine("debug", "Parsing SYSTEMD_OFFLINE: %m", ToString(g))>> \o
                      (IF c < 0
                       THEN <<LogLine("debug", "running_in_chroot(): %m", ToString(c))>>
                       ELSE <<>>),
              probes |-> env \o chroot \o self(c > 0)]

\* Nothing was called.
NotConsulted(r) == [r |-> r, log |-> <<>>, probes |-> <<>>]

(* ---------------------------- dispatch_verb ---------------------------- *)

\* found() with the default entry as a fallback for a name that differs.
found_DefaultFallback(name, i) ==
    \/ name # NULL /\ streq(name, verbs[i].verb)
    \/ VERB_DEFAULT \in verbs[i].flags

\* Does entry i match?  By name if one was given, else by the default flag.
found(name, i) ==
    IF name # NULL
    THEN streq(name, verbs[i].verb)
    ELSE VERB_DEFAULT \in verbs[i].flags

\* scan() going on past a match to the last entry that matches.
RECURSIVE scan_LastMatch(_, _)
scan_LastMatch(name, i) ==
    IF verbs[i].dispatch = NULL THEN i
    ELSE IF found(name, i) /\ verbs[scan_LastMatch(name, i + 1)].dispatch = NULL
    THEN i
    ELSE scan_LastMatch(name, i + 1)

\* The for (i = 0;; i++) loop: the index it stops at, which holds either the
\* terminator (no match) or the first match.
RECURSIVE scan(_, _)
scan(name, i) ==
    IF verbs[i].dispatch = NULL THEN i
    ELSE IF found(name, i) THEN i
    ELSE scan(name, i + 1)

\* LookupFailureLog() without the branch for a missing name.
LookupFailureLog_NameOnly(name) == LogLine("error", "Unknown operation %s.", name)

\* LookupFailureLog() writing at debug level.
LookupFailureLog_Debug(name) ==
    IF name # NULL
    THEN LogLine("debug", "Unknown operation %s.", name)
    ELSE LogLine("debug", "Requires operation parameter.", NULL)

\* LookupFailureLog() with the two texts exchanged.
LookupFailureLog_Swapped(name) ==
    IF name # NULL
    THEN LogLine("error", "Requires operation parameter.", NULL)
    ELSE LogLine("error", "Unknown operation %s.", name)

\* The diagnostic of a lookup failure.
LookupFailureLog(name) ==
    IF name # NULL
    THEN LogLine("error", "Unknown operation %s.", name)
    ELSE LogLine("error", "Requires operation parameter.", NULL)

\* if (!name) left = 1;
EffectiveLeft(name, left) == IF name = NULL THEN 1 ELSE left

\* TooFew() giving way to the upper limit when both limits are broken.
TooFew_AfterMax(verb, left) ==
    /\ verb.min_args # VERB_ANY /\ left < verb.min_args
    /\ ~(verb.max_args # VERB_ANY /\ left > verb.max_args)

TooFew(verb, left) == verb.min_args # VERB_ANY /\ left < verb.min_args

\* TooMany() with an exclusive upper limit.
TooMany_Exclusive(verb, left) == verb.max_args # VERB_ANY /\ left >= verb.max_args

TooMany(verb, left) == verb.max_args # VERB_ANY /\ left > verb.max_args

\* OnlineGate() testing the wrong flag.
OnlineGate_WrongFlag(verb) ==
    IF VERB_DEFAULT \in verb.flags
    THEN {running_in_chroot_or_offline(g, c) :
             g \in GetenvBoolResults, c \in RunningInChrootResults}
    ELSE {NotConsulted(FALSE)}

\* OnlineGate() consulting the predicate whatever the flags.
OnlineGate_Always(verb) ==
    {running_in_chroot_or_offline(g, c) :
        g \in GetenvBoolResults, c \in RunningInChrootResults}

\* The executions of the restricted-environment gate for verb.
OnlineGate(verb) ==
    IF VERB_ONLINE_ONLY \in verb.flags
    THEN {running_in_chroot_or_offline(g, c) :
             g \in GetenvBoolResults, c \in RunningInChrootResults}
    ELSE {NotConsulted(FALSE)}

\* SkipLog() reporting the skip as an error.
SkipLog_AsError(name) ==
    IF name # NULL
    THEN LogLine("error", "Running in chroot, ignoring request: %s", name)
    ELSE LogLine("error", "Running in chroot, ignoring request.", NULL)

\* The notice of a skipped dispatch.
SkipLog(name) ==
    IF name # NULL
    THEN LogLine("info", "Running in chroot, ignoring request: %s", name)
    ELSE LogLine("info", "Running in chroot, ignoring request.", NULL)

\* RootGate() testing the wrong flag.
RootGate_WrongFlag(verb) ==
    IF VERB_ONLINE_ONLY \in verb.flags
    THEN {must_be_root(isRoot) : isRoot \in GeteuidIsRoot}
    ELSE {NotConsulted(0)}

\* The executions of the privilege gate for verb.
RootGate(verb) ==
    IF VERB_MUST_BE_ROOT \in verb.flags
    THEN {must_be_root(isRoot) : isRoot \in GeteuidIsRoot}
    ELSE {NotConsulted(0)}

\* Invocation() passing the arguments after the verb token.
Invocation_SkipsVerb(verb, name, left) ==
    IF name # NULL
    THEN [dispatch |-> verb.dispatch, argc |-> left,
          argv |-> StrvFrom(argv, optind + 1), userdata |-> userdata]
    ELSE [dispatch |-> verb.dispatch, argc |-> 1,
          argv |-> <<verb.verb>>, userdata |-> userdata]

\* Invocation() without the synthesized argument list of the default path.
Invocation_NoFake(verb, name, left) ==
    [dispatch |-> verb.dispatch, argc |-> left,
     argv |-> StrvFrom(argv, optind), userdata |-> userdata]

\* Invocation() passing no user context.
Invocation_NoUserdata(verb, name, left) ==
    IF name # NULL
    THEN [dispatch |-> verb.dispatch, argc |-> left,
          argv |-> StrvFrom(argv, optind), userdata |-> NULL]
    ELSE [dispatch |-> verb.dispatch, argc |-> 1,
          argv |-> <<verb.verb>>, userdata |-> NULL]

\* Invocation() passing the number of remaining arguments on both paths.
Invocation_RawCount(verb, name, left) ==
    IF name # NULL
    THEN [dispatch |-> verb.dispatch, argc |-> argc - optind,
          argv |-> StrvFrom(argv, optind), userdata |-> userdata]
    ELSE [dispatch |-> verb.dispatch, argc |-> argc - optind,
          argv |-> <<verb.verb>>, userdata |-> userdata]

\* The call verb->dispatch(...) made at the end.
Invocation(verb, name, left) ==
    IF name # NULL
    THEN [dispatch |-> verb.dispatch, argc |-> left,
          argv |-> StrvFrom(argv, optind), userdata |-> userdata]
    ELSE [dispatch |-> verb.dispatch, argc |-> 1,
          argv |-> <<verb.verb>>, userdata |-> userdata]

\* The handler ran and returned h.
HandlerProbe(h) == <<[fn |-> "handler", r |-> h]>>

\* The failure test with the sign turned around.
MustBeRootFailed_Inverted(r) == r > 0

\* if (r < 0) return r;
MustBeRootFailed(r) == r < 0

Return(r, l, p, c) ==
    /\ ret' = r
    /\ log' = l
    /\ probes' = p
    /\ calls' = c
    /\ pc' = "done"
    /\ UNCHANGED <<inputs, th>>

\* dispatch_verb() with the privilege gate ahead of the restricted-
\* environment gate.
dispatch_verb_RootFirst ==
    /\ pc = "start"
    /\ LET name == argv[optind]
           i == scan(name, 0)
           verb == verbs[i]
           left == EffectiveLeft(name, argc - optind)
       IN  IF verb.dispatch = NULL
           THEN Return(-EINVAL, <<LookupFailureLog(name)>>, <<>>, <<>>)
           ELSE IF TooFew(verb, left)
           THEN Return(-EINVAL, <<LogLine("error", "Too few arguments.", NULL)>>,
                       <<>>, <<>>)
           ELSE IF TooMany(verb, left)
           THEN Return(-EINVAL, <<LogLine("error", "Too many arguments.", NULL)>>,
                       <<>>, <<>>)
           ELSE \E priv \in RootGate(verb) :
                IF MustBeRootFailed(priv.r)
                THEN Return(priv.r, priv.log, priv.probes, <<>>)
                ELSE \E off \in OnlineGate(verb) :
                     IF off.r
                     THEN Return(0, priv.log \o off.log \o <<SkipLog(name)>>,
                                 priv.probes \o off.probes, <<>>)
                     ELSE \E h \in HandlerResults :
                          Return(h, priv.log \o off.log,
                                 priv.probes \o off.probes \o HandlerProbe(h),
                                 <<Invocation(verb, name, left)>>)

dispatch_verb ==
    /\ pc = "start"
    /\ LET name == argv[optind]
           i == scan(name, 0)
           verb == verbs[i]
           left == EffectiveLeft(name, argc - optind)
       IN  IF verb.dispatch = NULL
           THEN Return(-EINVAL, <<LookupFailureLog(name)>>, <<>>, <<>>)
           ELSE IF TooFew(verb, left)
           THEN Return(-EINVAL, <<LogLine("error", "Too few arguments.", NULL)>>,
                       <<>>, <<>>)
           ELSE IF TooMany(verb, left)
           THEN Return(-EINVAL, <<LogLine("error", "Too many arguments.", NULL)>>,
                       <<>>, <<>>)
           ELSE \E off \in OnlineGate(verb) :
                IF off.r
                THEN Return(0, off.log \o <<SkipLog(name)>>, off.probes, <<>>)
                ELSE \E priv \in RootGate(verb) :
                     IF MustBeRootFailed(priv.r)
                     THEN Return(priv.r, off.log \o priv.log,
                                 off.probes \o priv.probes, <<>>)
                     ELSE \E h \in HandlerResults :
                          Return(h, off.log \o priv.log,
                                 off.probes \o priv.probes \o HandlerProbe(h),
                                 <<Invocation(verb, name, left)>>)

(* --------------------------- specification ----------------------------- *)

\* The process after option parsing: the asserted preconditions hold
\* (verbs[0].dispatch, argc >= 0, argc >= optind), argv[argc] is NULL.
Init ==
    /\ verbs \in Tables
    /\ argc \in 0..MaxArgc
    /\ optind \in 0..argc
    /\ argv \in ArgvOf(argc, optind)
    /\ userdata \in Userdata
    /\ pc = "start"
    /\ ret = 0
    /\ log = <<>>
    /\ probes = <<>>
    /\ calls = <<>>
    /\ th = <<>>

Next == dispatch_verb

Spec == Init /\ [][Next]_vars

(* ------------------------ dispatch_verb(), by steps --------------------- *)
(* The same function, one step per statement that reads or writes what     *)
(* another thread can see, for callers on several threads that share the   *)
(* table.  optind is getopt's variable: one per process, not per thread.   *)

Threads == {"t1", "t2"}

\* The table of n entries the threads share: the first entry has an upper
\* limit and needs root, the others are online-only defaults.
ThreadEntry(i) ==
    [verb |-> IF i % 2 = 0 THEN "status" ELSE "restart",
     min_args |-> VERB_ANY,
     max_args |-> IF i = 0 THEN MaxLimit ELSE VERB_ANY,
     flags |-> IF i = 0 THEN {VERB_MUST_BE_ROOT} ELSE {VERB_DEFAULT, VERB_ONLINE_ONLY},
     dispatch |-> Handler(i)]

ThreadTables == {TableOf([k \in 1..n |-> ThreadEntry(k - 1)]) : n \in 1..MaxVerbs}

\* The argument vector of thread t: MaxArgc tokens and the closing NULL.
ThreadArgv(t) ==
    [k \in 0..MaxArgc |->
        IF k = MaxArgc THEN NULL
        ELSE IF k = 0 THEN (IF t = "t1" THEN "status" ELSE "restart")
        ELSE IF k = 1 THEN (IF t = "t1" THEN "restart" ELSE "frob")
        ELSE Filler(k)]

\* The locals of a call that has not started: the arguments the caller will
\* pass, the option index op its option parsing will leave in optind, and
\* the locals left, name, i of dispatch_verb().
ThreadStart(t, op) ==
    [pc |-> "idle", argc |-> MaxArgc, argv |-> ThreadArgv(t), op |-> op,
     left |-> 0, name |-> NULL, i |-> 0,
     ret |-> 0, log |-> <<>>, probes |-> <<>>, calls |-> <<>>,
     disturbed |-> FALSE, iters |-> <<>>, gates |-> <<>>]

InCall(t) == th[t].pc \notin {"idle", "done", "aborted"}

\* Thread t moves to the locals r; nothing shared is written.
Step(t, r) ==
    /\ th' = [th EXCEPT ![t] = r]
    /\ UNCHANGED <<verbs, argc, argv, optind, userdata, pc, ret, log, probes, calls>>

\* The caller of thread t has parsed its options: optind is the index of its
\* first positional argument.  Calls of other threads that are under way
\* see the new value.
getopt_done(t) ==
    /\ th[t].pc = "idle"
    /\ optind' = th[t].op
    /\ th' = [u \in Threads |->
                 IF u = t THEN [th[u] EXCEPT !.pc = "l84"]
                 ELSE IF InCall(u) THEN [th[u] EXCEPT !.disturbed = TRUE]
                 ELSE th[u]]
    /\ UNCHANGED <<verbs, argc, argv, userdata, pc, ret, log, probes, calls>>

\* assert(argc >= optind);
thread_assert(t) ==
    /\ th[t].pc = "l84"
    /\ Step(t, [th[t] EXCEPT !.pc = IF th[t].argc >= optind THEN "l86" ELSE "aborted"])

\* left = argc - optind;
thread_left(t) ==
    /\ th[t].pc = "l86"
    /\ Step(t, [th[t] EXCEPT !.pc = "l87", !.left = th[t].argc - optind])

\* thread_name() consuming the verb token: it moves optind past the name.
thread_name_AdvancesOptind(t) ==
    /\ th[t].pc = "l87"
    /\ th' = [th EXCEPT ![t] = [th[t] EXCEPT !.pc = "scan",
                                             !.name = th[t].argv[optind], !.i = 0]]
    /\ optind' = IF th[t].argv[optind] # NULL THEN optind + 1 ELSE optind
    /\ UNCHANGED <<verbs, argc, argv, userdata, pc, ret, log, probes, calls>>

\* name = argv[optind]; and the i = 0 of the for loop
thread_name(t) ==
    /\ th[t].pc = "l87"
    /\ Step(t, [th[t] EXCEPT !.pc = "scan", !.name = th[t].argv[optind], !.i = 0])

\* thread_scan() that tests the same entry again instead of moving on.
thread_scan_NoIncrement(t) ==
    /\ th[t].pc = "scan"
    /\ LET r == [th[t] EXCEPT !.iters = Append(@, th[t].i)]
       IN  IF verbs[th[t].i].dispatch = NULL
           THEN Step(t, [r EXCEPT !.pc = "done", !.ret = -EINVAL,
                                  !.log = <<LookupFailureLog(th[t].name)>>])
           ELSE IF found(th[t].name, th[t].i)
           THEN Step(t, [r EXCEPT !.pc = "count"])
           ELSE Step(t, r)

\* One round of the for (i = 0;; i++) loop: the terminator ends the call,
\* a match ends the loop, anything else moves to the next entry.
thread_scan(t) ==
    /\ th[t].pc = "scan"
    /\ LET r == [th[t] EXCEPT !.iters = Append(@, th[t].i)]
       IN  IF verbs[th[t].i].dispatch = NULL
           THEN Step(t, [r EXCEPT !.pc = "done", !.ret = -EINVAL,
                                  !.log = <<LookupFailureLog(th[t].name)>>])
           ELSE IF found(th[t].name, th[t].i)
           THEN Step(t, [r EXCEPT !.pc = "count"])
           ELSE Step(t, [r EXCEPT !.i = @ + 1])

\* if (!name) left = 1; and the two tests of the argument count
thread_count(t) ==
    /\ th[t].pc = "count"
    /\ LET verb == verbs[th[t].i]
           left == EffectiveLeft(th[t].name, th[t].left)
           r == [th[t] EXCEPT !.left = left, !.gates = Append(@, "count")]
       IN  IF TooFew(verb, left)
           THEN Step(t, [r EXCEPT !.pc = "done", !.ret = -EINVAL,
                    !.log = <<LogLine("error", "Too few arguments.", NULL)>>])
           ELSE IF TooMany(verb, left)
           THEN Step(t, [r EXCEPT !.pc = "done", !.ret = -EINVAL,
                    !.log = <<LogLine("error", "Too many arguments.", NULL)>>])
           ELSE Step(t, [r EXCEPT !.pc = "online"])

\* if ((verb->flags & VERB_ONLINE_ONLY) && running_in_chroot_or_offline())
thread_online(t) ==
    /\ th[t].pc = "online"
    /\ \E off \in OnlineGate(verbs[th[t].i]) :
           LET r == [th[t] EXCEPT !.gates = Append(@, "online"),
                                  !.log = @ \o off.log, !.probes = @ \o off.probes]
           IN  IF off.r
               THEN Step(t, [r EXCEPT !.pc = "done", !.ret = 0,
                                      !.log = @ \o <<SkipLog(th[t].name)>>])
               ELSE Step(t, [r EXCEPT !.pc = "root"])

\* if (verb->flags & VERB_MUST_BE_ROOT) { r = must_be_root(); ... }
thread_root(t) ==
    /\ th[t].pc = "root"
    /\ \E priv \in RootGate(verbs[th[t].i]) :
           LET r == [th[t] EXCEPT !.gates = Append(@, "root"),
                                  !.log = @ \o priv.log, !.probes = @ \o priv.probes]
           IN  IF MustBeRootFailed(priv.r)
               THEN Step(t, [r EXCEPT !.pc = "done", !.ret = priv.r])
               ELSE Step(t, [r EXCEPT !.pc = "invoke"])

\* The last statement: verb->dispatch(left, argv + optind, userdata) when a
\* name was given, which reads optind again, else the call with the list
\* made of the verb's own name.
thread_invoke(t) ==
    /\ th[t].pc = "invoke"
    /\ \E h \in HandlerResults :
           LET verb == verbs[th[t].i]
               call == IF th[t].name # NULL
                       THEN [dispatch |-> verb.dispatch, argc |-> th[t].left,
                             argv |-> StrvFrom(th[t].argv, optind),
                             userdata |-> userdata]
                       ELSE [dispatch |-> verb.dispatch, argc |-> 1,
                             argv |-> <<verb.verb>>, userdata |-> userdata]
           IN  Step(t, [th[t] EXCEPT !.gates = Append(@, "invoke"), !.pc = "done",
                                     !.ret = h, !.probes = @ \o HandlerProbe(h),
                                     !.calls = <<call>>])

\* The steps of thread t inside dispatch_verb().
thread_step(t) ==
    \/ thread_assert(t)
    \/ thread_left(t)
    \/ thread_name(t)
    \/ thread_scan(t)
    \/ thread_count(t)
    \/ thread_online(t)
    \/ thread_root(t)
    \/ thread_invoke(t)

InitThreads ==
    /\ verbs \in ThreadTables
    /\ optind = 0
    /\ userdata \in Userdata
    /\ th \in {[t \in Threads |-> ThreadStart(t, op[t])] : op \in [Threads -> 0..MaxArgc]}
    /\ argc = 0
    /\ argv = <<>>
    /\ pc = "threads"
    /\ ret = 0
    /\ log = <<>>
    /\ probes = <<>>
    /\ calls = <<>>

NextThreads == \E t \in Threads : getopt_done(t) \/ thread_step(t)

\* Every thread is scheduled: a call that can take a step takes one.
SpecThreads ==
    InitThreads /\ [][NextThreads]_vars /\ \A t \in Threads : WF_vars(thread_step(t))

(* ---------------------------- observations ----------------------------- *)
(* What a caller can see of a finished call, stated from the inputs and    *)
(* the recorded effects, without going through the dispatcher's operators. *)

Done == pc = "done"

\* The first positional argument, NULL when the user gave none.
Name == argv[optind]

\* The indices of the table's entries (the terminator excluded).
Entries == 0..(TableLen(verbs, 0) - 1)

Named == {j \in Entries : verbs[j].verb = Name}

Defaults == {j \in Entries : VERB_DEFAULT \in verbs[j].flags}

\* The entries the call may select.
Candidates == IF Name # NULL THEN Named ELSE Defaults

Lowest(S) == CHOOSE x \in S : \A y \in S : x <= y

\* The entry the call is about (meaningful when Candidates is not empty).
Matched == verbs[Lowest(Candidates)]

\* The effective argument count.
Count == IF Name # NULL THEN argc - optind ELSE 1

\* argv[optind], ..., argv[argc - 1]
Slice == [k \in 1..(argc - optind) |-> argv[optind + k - 1]]

CountOk ==
    /\ Matched.min_args = VERB_ANY \/ Count >= Matched.min_args
    /\ Matched.max_args = VERB_ANY \/ Count <= Matched.max_args

\* The values a collaborator returned in this call.
ProbeResults(fn) == {probes[k].r : k \in {k \in 1..Len(probes) : probes[k].fn = fn}}

\* The restricted-environment predicate was called and said yes.
Restricted == 1 \in ProbeResults("running_in_chroot_or_offline")

\* The privilege check was made and failed.
Denied == \E r \in ProbeResults("must_be_root") : r < 0

IsError(l) == l.level = "error"

IsInfo(l) == l.level = "info"

\* The log_error lines of the call.
ErrorLines == SelectSeq(log, IsError)

\* The log_info lines of the call.
InfoLines == SelectSeq(log, IsInfo)

\* The call ended in exactly this one handler invocation.
Invoked(entry, n, args) ==
    calls = <<[dispatch |-> entry.dispatch, argc |-> n, argv |-> args,
               userdata |-> userdata]>>

\* The call reported this error and nothing else.
Failed(msg, arg) ==
    /\ ret = -EINVAL
    /\ calls = <<>>
    /\ ErrorLines = <<LogLine("error", msg, arg)>>

(* ------------------------------- claims -------------------------------- *)

\* C1 as stated: whenever the supplied name is in the table, the call ends in
\* the handler of an entry of that name, with argc - optind arguments that
\* start at the verb token.
C1_AsStated ==
    (Done /\ Name # NULL /\ Named # {}) =>
        \E j \in Named : Invoked(verbs[j], argc - optind, Slice)

\* C1 (amended): when the supplied name is in the table and the first entry
\* of that name passes argument-count validation, is not skipped by the
\* restricted-environment gate and is not denied by the privilege check, the
\* call ends in exactly one invocation, of that entry's handler, with
\* argc - optind arguments that start at the verb token.
C1_NamedDispatch ==
    (Done /\ Name # NULL /\ Named # {} /\ CountOk /\ ~Restricted /\ ~Denied) =>
        Invoked(verbs[Lowest(Named)], argc - optind, Slice)

\* A two-argument call of the second entry's verb reached its handler.
C1_Witness ==
    /\ Done /\ Name # NULL /\ Named # {} /\ Lowest(Named) = 1
    /\ argc - optind = 2
    /\ Len(calls) = 1

\* C2 as stated: with no name and exactly one default entry, the call ends
\* in that entry's handler with one argument, the entry's name.
C2_AsStated ==
    (Done /\ Name = NULL /\ Cardinality(Defaults) = 1) =>
        Invoked(Matched, 1, <<Matched.verb>>)

\* C2 (amended): with no name and exactly one default entry that admits one
\* argument, is not skipped by the restricted-environment gate and is not
\* denied by the privilege check, the call ends in exactly one invocation,
\* of that entry's handler, with count 1 and the one-element list holding
\* the entry's own name.
C2_DefaultDispatch ==
    (Done /\ Name = NULL /\ Cardinality(Defaults) = 1
          /\ CountOk /\ ~Restricted /\ ~Denied) =>
        Invoked(Matched, 1, <<Matched.verb>>)

\* The default verb ran although argv held options only (argc = optind > 0).
C2_Witness ==
    /\ Done /\ Name = NULL /\ Cardinality(Defaults) = 1
    /\ argc = optind /\ optind > 1
    /\ Len(calls) = 1 /\ calls[1].argv # Slice

\* C3: a supplied name that no entry carries gives -EINVAL, the "unknown
\* operation" diagnostic and no handler call, default entries or not.
C3_UnknownVerb ==
    (Done /\ Name # NULL /\ Named = {}) =>
        Failed("Unknown operation %s.", Name)

\* An unknown name was rejected although the table has a default entry.
C3_Witness ==
    /\ Done /\ Name # NULL /\ Named = {} /\ Defaults # {}
    /\ ret = -EINVAL

\* C4: no name and no default entry gives -EINVAL, the "requires operation"
\* diagnostic and no handler call.
C4_MissingVerb ==
    (Done /\ Name = NULL /\ Defaults = {}) =>
        Failed("Requires operation parameter.", NULL)

\* A call without a verb was rejected by a two-entry table without default.
C4_Witness ==
    /\ Done /\ Name = NULL /\ Defaults = {} /\ TableLen(verbs, 0) = MaxVerbs
    /\ ret = -EINVAL

\* C5: for the matched entry and the effective count, the call fails with
\* "too few" exactly when min_args is a limit and the count is below it, with
\* "too many" exactly when it did not fail on the minimum, max_args is a
\* limit and the count is above it, and otherwise no argument-count error is
\* reported; a count equal to a limit passes, VERB_ANY never fails.
C5_ArgCount ==
    (Done /\ Candidates # {}) =>
        LET few == Matched.min_args # VERB_ANY /\ Count < Matched.min_args
            many == ~few /\ Matched.max_args # VERB_ANY /\ Count > Matched.max_args
        IN  /\ few <=> Failed("Too few arguments.", NULL)
            /\ many <=> Failed("Too many arguments.", NULL)
            /\ (~few /\ ~many) =>
                   \A k \in 1..Len(log) :
                       log[k].msg \notin {"Too few arguments.", "Too many arguments."}

\* A count equal to the upper limit of the matched entry passed validation.
C5_Witness ==
    /\ Done /\ Candidates # {}
    /\ Matched.max_args = Count /\ Matched.min_args = VERB_ANY
    /\ Len(calls) = 1

\* C6: for a matched online-only entry, a count within the limits makes the
\* call ask the restricted-environment predicate, and a yes ends the call
\* with 0, no handler call and no error; a count outside the limits gives
\* the argument-count error without the predicate being asked.
C6_OfflineSkip ==
    (Done /\ Candidates # {} /\ VERB_ONLINE_ONLY \in Matched.flags) =>
        IF CountOk
        THEN /\ ProbeResults("running_in_chroot_or_offline") # {}
             /\ Restricted => (ret = 0 /\ calls = <<>> /\ ErrorLines = <<>>)
        ELSE /\ probes = <<>>
             /\ \/ Failed("Too few arguments.", NULL)
                \/ Failed("Too many arguments.", NULL)

\* An online-only verb that also needs root was skipped in a chroot.
C6_Witness ==
    /\ Done /\ Candidates # {} /\ Matched.flags = {VERB_ONLINE_ONLY, VERB_MUST_BE_ROOT}
    /\ Matched.min_args # VERB_ANY /\ CountOk /\ Restricted
    /\ ret = 0 /\ calls = <<>>

\* C7: for a matched entry that requires root, with the count within the
\* limits and no skip by the restricted-environment gate, the privilege
\* check is made, and when it fails the call returns the check's error
\* without calling the handler.
C7_PermissionDenied ==
    (Done /\ Candidates # {} /\ VERB_MUST_BE_ROOT \in Matched.flags
          /\ CountOk /\ ~Restricted) =>
        /\ ProbeResults("must_be_root") # {}
        /\ Denied => /\ ret < 0
                     /\ ProbeResults("must_be_root") = {ret}
                     /\ calls = <<>>

\* Root was denied after the restricted-environment gate let the call pass.
C7_Witness ==
    /\ Done /\ Candidates # {} /\ VERB_ONLINE_ONLY \in Matched.flags
    /\ ProbeResults("running_in_chroot_or_offline") = {0}
    /\ Denied /\ ret = -EPERM /\ calls = <<>>

\* The call ended in one handler invocation and no dispatcher error.
OutcomeInvoked == Len(calls) = 1 /\ ErrorLines = <<>> /\ InfoLines = <<>>

\* The call ended in an error, without a handler invocation.
OutcomeError == calls = <<>> /\ ret < 0 /\ Len(ErrorLines) = 1 /\ InfoLines = <<>>

\* The call was skipped: success, a notice, no handler invocation.
OutcomeSkipped == calls = <<>> /\ ret = 0 /\ ErrorLines = <<>> /\ Len(InfoLines) = 1

\* C8: a finished call is in exactly one of the three outcomes, so it never
\* holds two invocations, nor an invocation together with a dispatcher error.
C8_OneOutcome ==
    Done =>
        /\ OutcomeInvoked \/ OutcomeError \/ OutcomeSkipped
        /\ ~(OutcomeInvoked /\ OutcomeError)
        /\ ~(OutcomeInvoked /\ OutcomeSkipped)
        /\ ~(OutcomeError /\ OutcomeSkipped)

\* A handler that was invoked returned an error of its own.
C8_Witness == Done /\ OutcomeInvoked /\ ret = -EINVAL

\* The call was skipped by the restricted-environment gate.
SkippedCall ==
    /\ Done /\ Candidates # {} /\ VERB_ONLINE_ONLY \in Matched.flags
    /\ CountOk /\ Restricted

\* C9 as stated: a skipped call leaves an info notice that names the matched
\* verb, on the named and on the default path.
C9_AsStated ==
    SkippedCall =>
        \E k \in 1..Len(InfoLines) : InfoLines[k].arg = Matched.verb

\* C9 (amended): a skipped call leaves exactly one info notice and no error
\* line; the notice names the verb when the name was supplied, and is the
\* generic notice without a name when the verb was selected by default.
C9_SkipNotice ==
    SkippedCall =>
        /\ ErrorLines = <<>>
        /\ InfoLines =
              IF Name # NULL
              THEN <<LogLine("info", "Running in chroot, ignoring request: %s",
                             Matched.verb)>>
              ELSE <<LogLine("info", "Running in chroot, ignoring request.", NULL)>>

\* The default verb was skipped.
C9_Witness == SkippedCall /\ Name = NULL /\ ret = 0 /\ Len(InfoLines) = 1

\* The call is on one of the five error paths.
ErrorPath ==
    \/ Name # NULL /\ Named = {}
    \/ Name = NULL /\ Defaults = {}
    \/ Candidates # {} /\ ~CountOk
    \/ Denied

PredicateResults == ProbeResults("running_in_chroot_or_offline")

\* C11: when running_in_chroot_or_offline() is called, a SYSTEMD_OFFLINE that
\* parses as true makes it return true and one that parses as false makes it
\* return false, both without a call of running_in_chroot(); when the
\* variable is unset or does not parse, running_in_chroot() is called once
\* and the predicate returns true exactly for a positive result.
C11_OfflinePredicate ==
    (Done /\ ProbeResults("getenv_bool") # {}) =>
        \E g \in GetenvBoolResults :
            /\ ProbeResults("getenv_bool") = {g}
            /\ g > 0 => (PredicateResults = {1} /\ ProbeResults("running_in_chroot") = {})
            /\ g = 0 => (PredicateResults = {0} /\ ProbeResults("running_in_chroot") = {})
            /\ g < 0 =>
                   \E c \in RunningInChrootResults :
                       /\ ProbeResults("running_in_chroot") = {c}
                       /\ PredicateResults = {IF c > 0 THEN 1 ELSE 0}

\* The override did not parse, the chroot probe failed, the answer was no.
C11_Witness ==
    /\ Done
    /\ ProbeResults("getenv_bool") = {-EINVAL}
    /\ ProbeResults("running_in_chroot") = {-EPERM}
    /\ PredicateResults = {0}

\* The error kind of a finished call, from its inputs and the privilege
\* check made, "none" when the call is on no error path.
ErrorKind ==
    IF Name # NULL /\ Named = {} THEN "UnknownVerb"
    ELSE IF Name = NULL /\ Defaults = {} THEN "MissingVerb"
    ELSE IF Matched.min_args # VERB_ANY /\ Count < Matched.min_args THEN "TooFewArguments"
    ELSE IF Matched.max_args # VERB_ANY /\ Count > Matched.max_args THEN "TooManyArguments"
    ELSE IF Denied THEN "PermissionDenied"
    ELSE "none"

ErrorKinds ==
    {"UnknownVerb", "MissingVerb", "TooFewArguments", "TooManyArguments",
     "PermissionDenied"}

\* The code the claim gives each kind: "invalid argument" for lookup and
\* argument-count failures, the privilege check's own code otherwise.
CodeOfKind(k) == IF k = "PermissionDenied" THEN -EPERM ELSE -EINVAL

\* The text of the diagnostic of each kind that dispatch_verb() reports itself.
TextOfKind(k) ==
    CASE k = "UnknownVerb" -> "Unknown operation %s."
      [] k = "MissingVerb" -> "Requires operation parameter."
      [] k = "TooFewArguments" -> "Too few arguments."
      [] k = "TooManyArguments" -> "Too many arguments."

\* C12 as stated: a failed call returns the code of its kind, and no other
\* kind has that code.
C12_AsStated ==
    (Done /\ ErrorKind # "none") =>
        /\ ret = CodeOfKind(ErrorKind)
        /\ \A k \in ErrorKinds \ {ErrorKind} : CodeOfKind(k) # ret

\* C12 (amended): lookup and argument-count failures all return -EINVAL, a
\* privilege failure returns exactly the code the privilege check reported;
\* the four -EINVAL kinds share their code and are told apart by their
\* diagnostic text only.
C12_ErrorCodes ==
    (Done /\ ErrorKind # "none") =>
        /\ calls = <<>>
        /\ ErrorKind = "PermissionDenied" =>
               (ProbeResults("must_be_root") = {ret} /\ ret < 0)
        /\ ErrorKind # "PermissionDenied" =>
               /\ ret = -EINVAL
               /\ Len(ErrorLines) = 1
               /\ ErrorLines[1].msg = TextOfKind(ErrorKind)

\* Too many arguments came back with the code of an unknown verb.
C12_Witness == Done /\ ErrorKind = "TooManyArguments" /\ ret = CodeOfKind("UnknownVerb")

\* C19: when a handler was invoked, dispatch_verb() returns what the handler
\* returned, and the handler got the caller's userdata, on the named and on
\* the default path.
C19_PassThrough ==
    (Done /\ calls # <<>>) =>
        /\ ProbeResults("handler") = {ret}
        /\ \A k \in 1..Len(calls) : calls[k].userdata = userdata

\* The default verb's handler failed and its error came back.
C19_Witness ==
    /\ Done /\ Name = NULL /\ Len(calls) = 1
    /\ ret = -EINVAL /\ calls[1].userdata = userdata

\* The positions in probes of the calls of fn.
ProbeIndices(fn) == {k \in 1..Len(probes) : probes[k].fn = fn}

\* The collaborators the restricted-environment gate calls.
EnvProbes ==
    ProbeIndices("getenv_bool") \cup ProbeIndices("running_in_chroot")
        \cup ProbeIndices("running_in_chroot_or_offline")

\* C14: the gates run in the order lookup, argument count, restricted
\* environment, privilege, invocation, each at most once, and a gate that
\* fails or skips ends the call: after a lookup or argument-count failure no
\* collaborator is called, after a skip the privilege check is not made,
\* after a denial the handler is not called; so an online-only entry that
\* needs root, in a restricted environment, returns 0 without must_be_root().
C14_GateOrder ==
    Done =>
        /\ \A a \in EnvProbes, b \in ProbeIndices("must_be_root") : a < b
        /\ \A a \in EnvProbes \cup ProbeIndices("must_be_root"),
              b \in ProbeIndices("handler") : a < b
        /\ Cardinality(ProbeIndices("running_in_chroot_or_offline")) <= 1
        /\ Cardinality(ProbeIndices("must_be_root")) <= 1
        /\ Cardinality(ProbeIndices("handler")) = Len(calls)
        /\ Len(calls) <= 1
        /\ Candidates = {} => (probes = <<>> /\ calls = <<>>)
        /\ (Candidates # {} /\ ~CountOk) => (probes = <<>> /\ calls = <<>>)
        /\ Restricted =>
               (ret = 0 /\ ProbeIndices("must_be_root") = {} /\ calls = <<>>)
        /\ Denied => calls = <<>>
        /\ (Candidates # {} /\ CountOk
               /\ {VERB_ONLINE_ONLY, VERB_MUST_BE_ROOT} \subseteq Matched.flags) =>
               EnvProbes # {}

\* An online-only verb that needs root was skipped and root never checked.
C14_Witness ==
    /\ Done /\ Candidates # {}
    /\ {VERB_ONLINE_ONLY, VERB_MUST_BE_ROOT} \subseteq Matched.flags
    /\ Restricted /\ ret = 0 /\ ProbeIndices("must_be_root") = {}

\* Both policy gates and the handler ran, in this order.
C14_WitnessAllGates ==
    /\ Done /\ EnvProbes # {} /\ ProbeIndices("must_be_root") # {}
    /\ ProbeIndices("handler") = {Len(probes)}

\* C15: the scan stops at the first match.  When several entries match
\* (the same name, or several default entries and no name), the one of lowest
\* index is validated and invoked; the later ones do not count: the handler
\* called is that entry's, the count is tested against its limits, and the
\* policy checks made are the ones its flags ask for.
C15_FirstMatch ==
    (Done /\ Cardinality(Candidates) >= 2) =>
        /\ \A k \in 1..Len(calls) : calls[k].dispatch = Matched.dispatch
        /\ ~CountOk <=> (ret = -EINVAL /\ calls = <<>> /\ probes = <<>>
                          /\ Len(ErrorLines) = 1)
        /\ ProbeIndices("running_in_chroot_or_offline") # {} <=>
               (CountOk /\ VERB_ONLINE_ONLY \in Matched.flags)
        /\ ProbeIndices("must_be_root") # {} =>
               VERB_MUST_BE_ROOT \in Matched.flags
        /\ (CountOk /\ ~Restricted /\ ~Denied) =>
               (Len(calls) = 1 /\ ProbeResults("handler") = {ret})

\* Two entries match; the first one's limits reject the call although the
\* second one declares none.
C15_Witness ==
    /\ Done /\ Cardinality(Candidates) >= 2
    /\ ~CountOk /\ ret = -EINVAL /\ calls = <<>>
    /\ \E j \in Candidates \ {Lowest(Candidates)} :
           verbs[j].min_args = VERB_ANY /\ verbs[j].max_args = VERB_ANY

\* The entries whose handler a call record names.
EntriesOf(call) == {j \in Entries : verbs[j].dispatch = call.dispatch}

\* C16: in every handler invocation the argument count is at least 1, it is
\* the number of elements of the argument list, and element zero of the list
\* is the name of the entry whose handler is called, on the named path and
\* on the default path alike.
C16_HandlerArgs ==
    \A k \in 1..Len(calls) :
        /\ calls[k].argc >= 1
        /\ calls[k].argc = Len(calls[k].argv)
        /\ EntriesOf(calls[k]) # {}
        /\ \A j \in EntriesOf(calls[k]) : calls[k].argv[1] = verbs[j].verb

\* A default-path invocation made although arguments precede optind.
C16_Witness ==
    /\ Done /\ Name = NULL /\ optind >= 1 /\ Len(calls) = 1
    /\ calls[1].argc = 1 /\ calls[1].argv = <<Matched.verb>>

\* A named-path invocation with two arguments.
C16_WitnessNamed ==
    /\ Done /\ Name # NULL /\ Len(calls) = 1
    /\ calls[1].argc = 2 /\ calls[1].argv[1] = Name

\* C17: the privilege check is made only for a matched entry flagged
\* must-be-root, the restricted-environment predicate is evaluated only for
\* one flagged online-only; for an entry with neither flag no collaborator
\* is consulted and the call ends in the argument-count error or in the
\* handler, whatever the predicates would have said.
C17_FlaggedOnly ==
    (Done /\ Candidates # {}) =>
        /\ ProbeIndices("must_be_root") # {} =>
               VERB_MUST_BE_ROOT \in Matched.flags
        /\ EnvProbes # {} => VERB_ONLINE_ONLY \in Matched.flags
        /\ (Matched.flags \cap {VERB_ONLINE_ONLY, VERB_MUST_BE_ROOT} = {}) =>
               /\ EnvProbes = {} /\ ProbeIndices("must_be_root") = {}
               /\ IF CountOk
                  THEN Len(calls) = 1 /\ ProbeResults("handler") = {ret}
                       /\ log = <<>>
                  ELSE ret = -EINVAL /\ calls = <<>> /\ Len(ErrorLines) = 1

\* An entry flagged must-be-root only: root was checked, the environment
\* was not.
C17_Witness ==
    /\ Done /\ Candidates # {}
    /\ Matched.flags \cap {VERB_ONLINE_ONLY, VERB_MUST_BE_ROOT} = {VERB_MUST_BE_ROOT}
    /\ ProbeIndices("must_be_root") # {} /\ EnvProbes = {}
    /\ Len(calls) = 1

\* The effective count is below the lower and above the upper limit.
BothLimitsBroken ==
    /\ Candidates # {}
    /\ Matched.min_args # VERB_ANY /\ Count < Matched.min_args
    /\ Matched.max_args # VERB_ANY /\ Count > Matched.max_args

ArgCountLines ==
    {k \in 1..Len(log) :
        log[k].msg \in {"Too few arguments.", "Too many arguments."}}

\* C18: the lower limit is tested before the upper one.  When the count
\* breaks both limits the call reports too few arguments, never too many,
\* and no call emits more than one of the two diagnostics.
C18_MinBeforeMax ==
    Done =>
        /\ BothLimitsBroken => Failed("Too few arguments.", NULL)
        /\ Cardinality(ArgCountLines) <= 1

\* A call whose count breaks both limits ended with too few arguments.
C18_Witness ==
    /\ Done /\ BothLimitsBroken /\ Name # NULL
    /\ ErrorLines = <<LogLine("error", "Too few arguments.", NULL)>>

\* What a call of thread t came to: the value returned, the lines logged,
\* the collaborators' answers and the handler invocation.
Outcome(t) ==
    [ret |-> th[t].ret, log |-> th[t].log, probes |-> th[t].probes,
     calls |-> th[t].calls]

\* The outcomes of dispatch_verb(ac, av, verbs, userdata) run alone with
\* optind = op, one for every way the collaborators can answer.
AloneOutcomes(ac, av, op) ==
    LET name == av[op]
        cands == {j \in Entries : IF name # NULL THEN verbs[j].verb = name
                                  ELSE VERB_DEFAULT \in verbs[j].flags}
        e == verbs[Lowest(cands)]
        n == IF name # NULL THEN ac - op ELSE 1
        args == IF name # NULL THEN [k \in 1..(ac - op) |-> av[op + k - 1]]
                ELSE <<e.verb>>
        error(msg, arg) == [ret |-> -EINVAL, log |-> <<LogLine("error", msg, arg)>>,
                            probes |-> <<>>, calls |-> <<>>]
    IN  IF cands = {}
        THEN {IF name # NULL THEN error("Unknown operation %s.", name)
              ELSE error("Requires operation parameter.", NULL)}
        ELSE IF e.min_args # VERB_ANY /\ n < e.min_args
        THEN {error("Too few arguments.", NULL)}
        ELSE IF e.max_args # VERB_ANY /\ n > e.max_args
        THEN {error("Too many arguments.", NULL)}
        ELSE UNION {
            IF off.r
            THEN {[ret |-> 0, log |-> off.log \o <<SkipLog(name)>>,
                   probes |-> off.probes, calls |-> <<>>]}
            ELSE UNION {
                IF priv.r < 0
                THEN {[ret |-> priv.r, log |-> off.log \o priv.log,
                       probes |-> off.probes \o priv.probes, calls |-> <<>>]}
                ELSE {[ret |-> h, log |-> off.log \o priv.log,
                       probes |-> off.probes \o priv.probes \o HandlerProbe(h),
                       calls |-> <<[dispatch |-> e.dispatch, argc |-> n,
                                    argv |-> args, userdata |-> userdata]>>] :
                         h \in HandlerResults}
                : priv \in RootGate(e)}
            : off \in OnlineGate(e)}

\* The call of thread t has returned with the outcome it has when run alone
\* with its own option index.
AsAlone(t) == Outcome(t) \in AloneOutcomes(th[t].argc, th[t].argv, th[t].op)

Returned(t) == th[t].pc = "done"

ScanInOrder(t) ==
    LET it == th[t].iters
    IN  /\ \A k \in 1..Len(it) : it[k] = k - 1 /\ it[k] <= TableLen(verbs, 0)
        /\ Len(it) <= TableLen(verbs, 0) + 1
        /\ th[t].i <= TableLen(verbs, 0)

\* The gates of thread t so far: each at most once, and none before the
\* scan has ended in a match.
GatesOnce(t) ==
    LET g == th[t].gates
    IN  /\ \A j, k \in 1..Len(g) : g[j] = g[k] => j = k
        /\ g # <<>> => (th[t].pc # "scan" /\ th[t].iters # <<>>
                          /\ verbs[th[t].i].dispatch # NULL)

\* C20: for a table that ends in a terminator and a call that passes the
\* assertions, dispatch_verb() terminates: the scan examines the entries at
\* increasing indices, never reads past the terminator and ends after at
\* most (table length + 1) rounds in a match or at the terminator; then each
\* gate is evaluated at most once; and every call that has begun returns.
C20_Terminates ==
    /\ [](\A t \in Threads : ScanInOrder(t) /\ GatesOnce(t))
    /\ \A t \in Threads : (th[t].pc = "l86") ~> Returned(t)

\* A call that found no match in the longest table: it examined every entry
\* and the terminator, and returned.
C20_Witness ==
    \E t \in Threads :
        /\ Returned(t) /\ th[t].ret = -EINVAL /\ th[t].gates = <<>>
        /\ TableLen(verbs, 0) = MaxVerbs
        /\ Len(th[t].iters) = MaxVerbs + 1

\* A call that went through every gate after a scan of two rounds.
C20_WitnessGates ==
    \E t \in Threads :
        /\ Returned(t) /\ Len(th[t].iters) = 2
        /\ th[t].gates = <<"count", "online", "root", "invoke">>

====
